---- MODULE Spec2Model ----
(***************************************************************************)
(* Model of the webhook load tester (test-webhook-performance.py) and of   *)
(* the result comparator (compare_results.py).                             *)
(*                                                                         *)
(* Spec         send_request, run_batch, run_all_tests, save_results and   *)
(*              the try/except of main, with the status, the error and     *)
(*              the cancellation of every request; no clock.               *)
(* TimedSpec    run_batch, run_all_tests and _calculate_overall_stats with *)
(*              the time.time() readings and the duration statistics, a    *)
(*              request being reduced to its timing and its success, and   *)
(*              with repeated run_all_tests calls on one tester.           *)
(* CompareSpec  compare_results on two loaded documents.                   *)
(*                                                                         *)
(* One asyncio event loop runs the orchestrating coroutine and the tasks   *)
(* that asyncio.gather creates.  Code between two awaits runs atomically,  *)
(* so every action is the code from one suspension point to the next.      *)
(***************************************************************************)
EXTENDS Integers, Sequences, FiniteSets, TLC

\* ---------------------------------------------------------------- bounds
MaxTotal == 3       \* requests of one run, over all its batches
MaxBatches == 3     \* batches of one run

\* ------------------------------------------------------ program constants
NoStatus == 0
Accepted == {200, 201, 202, 204}
NoError == "None"
TimeoutError == "Timeout after 60 seconds"

\* Status codes the endpoint answers with, and transport failures str(e).
StatusCodes == {200, 204, 404}
TransportErrors == {"Cannot connect to host"}

\* Exit statuses of an aborted process: sys.exit(1) in main, or the
\* interpreter's status for an interrupt that no handler of main sees.
AbortStatuses == {1, 130}

Ids == 1..MaxTotal

VARIABLES
    batch_sizes,    \* argument of run_all_tests
    pc,             \* position of main / run_all_tests / run_batch
    k,              \* position (1-based) of the batch last started
    session,        \* aiohttp.ClientSession of run_batch
    phase,          \* per request id: position of its send_request task
    status_code,    \* local of send_request
    error,          \* local of send_request
    response_body,  \* local of send_request
    timed_out,      \* whether the ClientTimeout(total=60) of the request fired
    attempts,       \* number of session.post calls made for the request id
    outcome,        \* value returned by the send_request task
    test_batches,   \* self.results["test_batches"]
    overall,        \* self.results["overall_statistics"]
    delays,         \* number of asyncio.sleep(2) calls made
    posts_total,    \* number of session.post calls made in the run
    saved,          \* the documents save_results wrote, in order
    abort_cause,    \* why the try block of main was left
    exit_status     \* exit status of the process

\* The same tester with its wall-clock readings (time.time), the requests
\* reduced to their timing and their success.
VARIABLES
    calls,            \* the batch_sizes of the successive run_all_tests calls
    call,             \* number of the run_all_tests call in progress or last made
    t_pc,             \* position of run_all_tests / run_batch
    t_pos,            \* position (1-based) of the batch last started in this call
    now,              \* what time.time() returns, in ticks
    batch_start_time, \* local of run_batch
    t_req,            \* per request id: its task's position and its time readings
    t_batches,        \* self.results["test_batches"]
    t_overall,        \* self.results["overall_statistics"]
    t_slept           \* ticks spent in asyncio.sleep since the tester was made

\* compare_results.py
VARIABLES
    result1,          \* the loaded first document
    result2,          \* the loaded second document
    c_pc,             \* position of compare_results
    c_pos,            \* pairs of zip(batches1, batches2) taken so far
    report            \* what compare_results printed, in order

runVars == <<batch_sizes, pc, k, session, phase, status_code, error,
             response_body, timed_out, attempts, outcome, test_batches,
             overall, delays, posts_total, saved, abort_cause, exit_status>>

timedVars == <<calls, call, t_pc, t_pos, now, batch_start_time, t_req,
               t_batches, t_overall, t_slept>>

compareVars == <<result1, result2, c_pc, c_pos, report>>

vars == <<batch_sizes, pc, k, session, phase, status_code, error,
          response_body, timed_out, attempts, outcome, test_batches,
          overall, delays, posts_total, saved, abort_cause, exit_status,
          timedVars, compareVars>>

\* The variables of a part of the program that a specification leaves out
\* are held at these values.
TimedOff ==
    /\ calls = <<>>
    /\ call = 0
    /\ t_pc = "off"
    /\ t_pos = 0
    /\ now = 0
    /\ batch_start_time = 0
    /\ t_req = <<>>
    /\ t_batches = <<>>
    /\ t_overall = <<>>
    /\ t_slept = 0

CompareOff ==
    /\ result1 = <<>>
    /\ result2 = <<>>
    /\ c_pc = "off"
    /\ c_pos = 0
    /\ report = <<>>

RunOff ==
    /\ batch_sizes = <<>>
    /\ pc = "off"
    /\ k = 0
    /\ session = "none"
    /\ phase = <<>>
    /\ status_code = <<>>
    /\ error = <<>>
    /\ response_body = <<>>
    /\ timed_out = <<>>
    /\ attempts = <<>>
    /\ outcome = <<>>
    /\ test_batches = <<>>
    /\ overall = <<>>
    /\ delays = 0
    /\ posts_total = 0
    /\ saved = <<>>
    /\ abort_cause = "none"
    /\ exit_status = -1

\* ------------------------------------------------------------- helpers

\* All sequences over S of length 0..n.
SeqsUpTo(S, n) == UNION {[1..m -> S] : m \in 0..n}

RECURSIVE SumSeq(_)
SumSeq(s) == IF s = <<>> THEN 0 ELSE Head(s) + SumSeq(Tail(s))

\* The batch size lists a run is started with.
BatchSizeLists ==
    {s \in SeqsUpTo(0..MaxTotal, MaxBatches) : SumSeq(s) <= MaxTotal}

\* Python round() of the exact quotient num/den (den > 0) to an integer:
\* nearest, ties to even.
RoundHalfEven(num, den) ==
    LET q == num \div den
        r == num % den
    IN  IF 2 * r < den THEN q
        ELSE IF 2 * r > den THEN q + 1
        ELSE IF q % 2 = 0 THEN q ELSE q + 1

\* Variant of PercentOf: nothing out of nothing counts as all.
PercentOf_EmptyIsFull(part, whole) ==
    IF whole > 0 THEN RoundHalfEven(part * 10000, whole) ELSE 10000

\* round((part / whole) * 100, 2) if whole > 0 else 0, in hundredths of a
\* percent.
PercentOf(part, whole) ==
    IF whole > 0 THEN RoundHalfEven(part * 10000, whole) ELSE 0

\* Variant of Success: any answered request counts as a success.
Success_AnyStatus(err, status) == err = NoError /\ status # NoStatus

\* "success" of the returned dict.
Success(err, status) == err = NoError /\ status \in Accepted

\* Variant of MakeOutcome: the loop index is passed instead of i + 1.
MakeOutcome_ZeroBased(id, status, err, body) ==
    [request_id |-> id - 1,
     status_code |-> status,
     error |-> err,
     success |-> Success(err, status),
     response_body_preview |-> body]

\* The dict send_request returns.
MakeOutcome(id, status, err, body) ==
    [request_id |-> id,
     status_code |-> status,
     error |-> err,
     success |-> Success(err, status),
     response_body_preview |-> body]

NoOutcome == MakeOutcome(0, NoStatus, NoError, "None")

\* Variant of CountSuccessful: every returned dict is counted.
CountSuccessful_All(results) == Len(results)

\* sum(1 for r in results if r["success"])
RECURSIVE CountSuccessful(_)
CountSuccessful(results) ==
    IF results = <<>> THEN 0
    ELSE (IF Head(results).success THEN 1 ELSE 0) + CountSuccessful(Tail(results))

\* The batch_result dict of run_batch.
BatchResult(batch_size, results) ==
    LET successful == CountSuccessful(results)
        failed == batch_size - successful
    IN  [batch_size |-> batch_size,
         successful_requests |-> successful,
         failed_requests |-> failed,
         success_rate_percent |-> PercentOf(successful, batch_size),
         individual_requests |-> results]

RECURSIVE SumField(_, _)
SumField(batches, f) ==
    IF batches = <<>> THEN 0
    ELSE f[Head(batches)] + SumField(Tail(batches), f)

\* _calculate_overall_stats
CalculateOverallStats(batches) ==
    LET total_requests == SumField(batches, [b \in {batches[j] : j \in DOMAIN batches} |-> b.batch_size])
        total_successful == SumField(batches, [b \in {batches[j] : j \in DOMAIN batches} |-> b.successful_requests])
        total_failed == SumField(batches, [b \in {batches[j] : j \in DOMAIN batches} |-> b.failed_requests])
    IN  [total_requests |-> total_requests,
         total_successful |-> total_successful,
         total_failed |-> total_failed,
         overall_success_rate_percent |-> PercentOf(total_successful, total_requests)]

NoStats == [total_requests |-> -1, total_successful |-> -1,
            total_failed |-> -1, overall_success_rate_percent |-> -1]

\* ------------------------------------------------------------- initial

Init ==
    /\ batch_sizes \in BatchSizeLists
    /\ pc = "for"
    /\ k = 0
    /\ session = "none"
    /\ phase = [i \in Ids |-> "none"]
    /\ status_code = [i \in Ids |-> NoStatus]
    /\ error = [i \in Ids |-> NoError]
    /\ response_body = [i \in Ids |-> "None"]
    /\ timed_out = [i \in Ids |-> FALSE]
    /\ attempts = [i \in Ids |-> 0]
    /\ outcome = [i \in Ids |-> NoOutcome]
    /\ test_batches = <<>>
    /\ overall = NoStats
    /\ delays = 0
    /\ posts_total = 0
    /\ saved = <<>>
    /\ abort_cause = "none"
    /\ exit_status = -1
    /\ TimedOff
    /\ CompareOff

\* ------------------------------------------------------- send_request

\* Size of the batch that is running (0 before the first batch).
CurrentSize == IF k \in DOMAIN batch_sizes THEN batch_sizes[k] ELSE 0

\* Requests whose task exists and has not finished.
InFlight == {i \in Ids : phase[i] \in {"created", "posting", "reading"}}

\* The task of request i starts running: session.post is issued (line 47).
SendStart(i) ==
    /\ pc = "gather"
    /\ phase[i] = "created"
    /\ session = "open"
    /\ phase' = [phase EXCEPT ![i] = "posting"]
    /\ attempts' = [attempts EXCEPT ![i] = @ + 1]
    /\ posts_total' = posts_total + 1
    /\ UNCHANGED <<timedVars, compareVars, batch_sizes, pc, k, session, status_code, error,
                   response_body, timed_out, outcome, test_batches, overall,
                   delays, saved, abort_cause, exit_status>>

\* The response head arrives: status_code = response.status (line 52), and
\* the task suspends in response.text().
RecvStatus(i, s) ==
    /\ pc = "gather"
    /\ phase[i] = "posting"
    /\ phase' = [phase EXCEPT ![i] = "reading"]
    /\ status_code' = [status_code EXCEPT ![i] = s]
    /\ UNCHANGED <<timedVars, compareVars, batch_sizes, pc, k, session, error, response_body,
                   timed_out, attempts, outcome, test_batches, overall,
                   delays, posts_total, saved, abort_cause, exit_status>>

\* Lines 57-78 and 60-78 and 64-78: the task records its locals and returns
\* its dict; nothing is awaited in between.
Return(i, status, err, body, fired) ==
    /\ phase' = [phase EXCEPT ![i] = "done"]
    /\ status_code' = [status_code EXCEPT ![i] = status]
    /\ error' = [error EXCEPT ![i] = err]
    /\ response_body' = [response_body EXCEPT ![i] = body]
    /\ timed_out' = [timed_out EXCEPT ![i] = fired]
    /\ outcome' = [outcome EXCEPT ![i] = MakeOutcome(i, status, err, body)]
    /\ UNCHANGED <<timedVars, compareVars, batch_sizes, pc, k, session, attempts, test_batches,
                   overall, delays, posts_total, saved, abort_cause,
                   exit_status>>

\* response.text() returns the body (line 54).
ReadBody(i) ==
    /\ pc = "gather"
    /\ phase[i] = "reading"
    /\ Return(i, status_code[i], NoError, "text", FALSE)

\* response.text() raises and the bare except of line 55 takes it.  The
\* exception is either a read/decoding failure or the asyncio.TimeoutError
\* that the total timeout raises inside the read (fired).
ReadBodyRaises(i, fired) ==
    /\ pc = "gather"
    /\ phase[i] = "reading"
    /\ Return(i, status_code[i], NoError, "None", fired)

\* The total timeout fires before the response head arrived (line 59).
PostTimeout(i) ==
    /\ pc = "gather"
    /\ phase[i] = "posting"
    /\ Return(i, NoStatus, TimeoutError, "None", TRUE)

\* Variant of PostRaises: the request is issued again after a failure.
PostRaises_Retry(i, e) ==
    /\ pc = "gather"
    /\ phase[i] = "posting"
    /\ phase' = [phase EXCEPT ![i] = "created"]
    /\ UNCHANGED <<timedVars, compareVars, batch_sizes, pc, k, session, status_code, error,
                   response_body, timed_out, attempts, outcome, test_batches,
                   overall, delays, posts_total, saved, abort_cause,
                   exit_status>>

\* session.post raises another Exception (line 63).
PostRaises(i, e) ==
    /\ pc = "gather"
    /\ phase[i] = "posting"
    /\ Return(i, NoStatus, e, "None", FALSE)

\* ---------------------------------------------------------- run_batch

\* Variant of CanStartBatch: the loop does not wait for the running batch.
CanStartBatch_NoAwait == pc \in {"for", "gather"} /\ k < Len(batch_sizes)

\* Lines 159-160 and 86-96: the loop takes the next size, run_batch opens a
\* session, creates the coroutines and suspends in asyncio.gather.
CanStartBatch == pc = "for" /\ k < Len(batch_sizes)

StartBatch ==
    /\ CanStartBatch
    /\ k' = k + 1
    /\ pc' = "gather"
    /\ session' = "open"
    /\ phase' = [i \in Ids |-> IF i <= batch_sizes[k + 1] THEN "created" ELSE "none"]
    /\ status_code' = [i \in Ids |-> NoStatus]
    /\ error' = [i \in Ids |-> NoError]
    /\ response_body' = [i \in Ids |-> "None"]
    /\ timed_out' = [i \in Ids |-> FALSE]
    /\ attempts' = [i \in Ids |-> 0]
    /\ outcome' = [i \in Ids |-> NoOutcome]
    /\ UNCHANGED <<timedVars, compareVars, batch_sizes, test_batches, overall, delays, posts_total,
                   saved, abort_cause, exit_status>>

\* Variant of GatherDone: the awaiter resumes at the first finished task.
GatherDone_FirstCompleted(n) == n = 0 \/ \E i \in 1..n : phase[i] = "done"

\* asyncio.gather(*tasks) resumes its awaiter when every task has returned.
GatherDone(n) == \A i \in 1..n : phase[i] = "done"

\* The list gather returns: the tasks' values in argument order.
GatherResults(n) == [i \in 1..n |-> outcome[i]]

\* "if batch_size != batch_sizes[-1]" of line 164.
WaitsAfter(batch_size, sizes) == batch_size # sizes[Len(sizes)]

\* Variant of JoinBatch: one session is kept for the whole run and is not
\* closed when the batch is joined.
JoinBatch_KeepsSession ==
    /\ pc = "gather"
    /\ GatherDone(CurrentSize)
    /\ test_batches' = Append(test_batches,
                              BatchResult(CurrentSize, GatherResults(CurrentSize)))
    /\ IF WaitsAfter(CurrentSize, batch_sizes)
         THEN pc' = "sleep" /\ delays' = delays + 1
         ELSE pc' = "for" /\ delays' = delays
    /\ UNCHANGED <<timedVars, compareVars, batch_sizes, k, session, phase, status_code, error,
                   response_body, timed_out, attempts, outcome, overall,
                   posts_total, saved, abort_cause, exit_status>>

\* Lines 96-149 and 161-165: gather returns, the session is closed, the
\* batch result is computed, returned and appended, and the loop either
\* suspends in asyncio.sleep(2) or goes to its next iteration.
JoinBatch ==
    /\ pc = "gather"
    /\ GatherDone(CurrentSize)
    /\ session' = "closed"
    /\ test_batches' = Append(test_batches,
                              BatchResult(CurrentSize, GatherResults(CurrentSize)))
    /\ IF WaitsAfter(CurrentSize, batch_sizes)
         THEN pc' = "sleep" /\ delays' = delays + 1
         ELSE pc' = "for" /\ delays' = delays
    /\ UNCHANGED <<timedVars, compareVars, batch_sizes, k, phase, status_code, error, response_body,
                   timed_out, attempts, outcome, overall, posts_total, saved,
                   abort_cause, exit_status>>

\* asyncio.sleep(2) of line 165 returns.
SleepDone ==
    /\ pc = "sleep"
    /\ pc' = "for"
    /\ UNCHANGED <<timedVars, compareVars, batch_sizes, k, session, phase, status_code, error,
                   response_body, timed_out, attempts, outcome, test_batches,
                   overall, delays, posts_total, saved, abort_cause,
                   exit_status>>

\* ------------------------------------------------------ run_all_tests

\* Lines 167-170: the loop is exhausted, the overall statistics are
\* computed and run_all_tests returns to main.
ReturnResults ==
    /\ pc = "for"
    /\ k = Len(batch_sizes)
    /\ overall' = CalculateOverallStats(test_batches)
    /\ pc' = "returned"
    /\ UNCHANGED <<timedVars, compareVars, batch_sizes, k, session, phase, status_code, error,
                   response_body, timed_out, attempts, outcome, test_batches,
                   delays, posts_total, saved, abort_cause, exit_status>>

\* ---------------------------------------------------------------- main

\* Variant of SaveResults: the results are also written when the try
\* block was left by an exception.
SaveResults_Always ==
    /\ pc \in {"returned", "aborted"}
    /\ saved' = Append(saved, [test_batches |-> test_batches,
                                overall_statistics |-> overall])
    /\ pc' = "exit"
    /\ exit_status' = IF pc = "returned" THEN 0 ELSE exit_status
    /\ UNCHANGED <<timedVars, compareVars, batch_sizes, k, session, phase, status_code, error,
                   response_body, timed_out, attempts, outcome, test_batches,
                   overall, delays, posts_total, abort_cause>>

\* Lines 306-311: print_summary, save_results, normal end of the process.
SaveResults ==
    /\ pc = "returned"
    /\ saved' = Append(saved, [test_batches |-> test_batches,
                                overall_statistics |-> overall])
    /\ pc' = "exit"
    /\ exit_status' = 0
    /\ UNCHANGED <<timedVars, compareVars, batch_sizes, k, session, phase, status_code, error,
                   response_body, timed_out, attempts, outcome, test_batches,
                   overall, delays, posts_total, abort_cause>>

\* What the cancellation that follows an abort does to the task of request
\* i: a task that has not reached response.text() is cancelled; a task
\* suspended in response.text() has the cancellation taken by the bare
\* except of line 55 and returns its dict.
AbortedPhase(i) ==
    IF phase[i] \in {"created", "posting"} THEN "cancelled"
    ELSE IF phase[i] = "reading" THEN "done"
    ELSE phase[i]

\* The try block of main is left by an exception (lines 313-320): nothing
\* in run_all_tests or run_batch catches it, the session's context manager
\* closes the session on the way out, and the process ends.
Abort(cause, status) ==
    /\ pc \in {"for", "gather", "sleep", "returned"}
    /\ pc' = "aborted"
    /\ abort_cause' = cause
    /\ exit_status' = status
    /\ session' = IF session = "open" THEN "closed" ELSE session
    /\ phase' = [i \in Ids |-> AbortedPhase(i)]
    /\ outcome' = [i \in Ids |->
                     IF phase[i] = "reading"
                       THEN MakeOutcome(i, status_code[i], NoError, "None")
                       ELSE outcome[i]]
    /\ UNCHANGED <<timedVars, compareVars, batch_sizes, k, status_code, error, response_body,
                   timed_out, attempts, test_batches, overall, delays,
                   posts_total, saved>>

\* KeyboardInterrupt while the run is in progress (line 313).
Interrupt == \E status \in AbortStatuses : Abort("interrupt", status)

\* Variant of BatchRaises: the loop catches the exception and goes on.
BatchRaises_Swallowed ==
    /\ pc = "gather"
    /\ pc' = "for"
    /\ abort_cause' = "error"
    /\ session' = "closed"
    /\ phase' = [i \in Ids |-> AbortedPhase(i)]
    /\ UNCHANGED <<timedVars, compareVars, batch_sizes, k, status_code, error, response_body,
                   timed_out, attempts, outcome, test_batches, overall,
                   delays, posts_total, saved, exit_status>>

\* An exception leaves "await self.run_batch(batch_size)" (line 160) and
\* reaches "except Exception" of main (line 316), which calls sys.exit(1).
BatchRaises ==
    /\ pc = "gather"
    /\ Abort("error", 1)

Next ==
    \/ StartBatch
    \/ \E i \in Ids : SendStart(i)
    \/ \E i \in Ids, s \in StatusCodes : RecvStatus(i, s)
    \/ \E i \in Ids : ReadBody(i)
    \/ \E i \in Ids, fired \in BOOLEAN : ReadBodyRaises(i, fired)
    \/ \E i \in Ids : PostTimeout(i)
    \/ \E i \in Ids, e \in TransportErrors : PostRaises(i, e)
    \/ JoinBatch
    \/ SleepDone
    \/ ReturnResults
    \/ SaveResults
    \/ Interrupt
    \/ BatchRaises

Spec == Init /\ [][Next]_vars


\* ================================================================ claims

\* The dicts of the requests that failed / succeeded, by their raw fields.
Failed(r) == r.error # NoError \/ r.status_code \notin {200, 201, 202, 204}

AllOutcomes ==
    {outcome[i] : i \in {j \in Ids : phase[j] = "done"}}
    \cup UNION {{b.individual_requests[j] : j \in DOMAIN b.individual_requests} :
                b \in {test_batches[j] : j \in DOMAIN test_batches}}

Max(a, b) == IF a >= b THEN a ELSE b

\* C1: the batch result is computed and appended only in a step taken when
\* every send_request of the running batch has returned; no request of the
\* batch is in flight at that step, and every dict the result holds is the
\* dict a finished request returned.
C1_JoinAfterAllFinished ==
    [][test_batches' # test_batches =>
         /\ \A i \in 1..CurrentSize : phase[i] = "done"
         /\ InFlight = {}
         /\ test_batches'[Len(test_batches')].individual_requests =
                [i \in 1..CurrentSize |-> outcome[i]]]_vars

\* C1 witness: a batch of at least two requests was joined, one of its
\* requests having succeeded and another failed.
C1_Witness ==
    \E j \in DOMAIN test_batches :
        /\ test_batches[j].batch_size >= 2
        /\ test_batches[j].successful_requests >= 1
        /\ test_batches[j].failed_requests >= 1

\* C2: batches never overlap.  While requests are in flight they all belong
\* to the batch at position k, whose predecessors have all been appended and
\* which has not; the loop moves to the next batch only in a step taken when
\* nothing is in flight and the result of batch k has been appended.
C2_StateBatchesSequential ==
    /\ InFlight # {} => /\ pc = "gather"
                        /\ InFlight \subseteq 1..CurrentSize
                        /\ Len(test_batches) = k - 1
    /\ pc \in {"for", "sleep"} => Len(test_batches) = k

C2_BatchesSequential ==
    /\ []C2_StateBatchesSequential
    /\ [][k' # k => /\ InFlight = {}
                    /\ Len(test_batches) = k
                    /\ k' = k + 1]_vars

\* C2 witness: requests of the second batch are in flight after the first
\* batch, which had requests too, was joined and appended.
C2_Witness ==
    /\ k = 2
    /\ pc = "gather"
    /\ InFlight # {}
    /\ Len(test_batches) = 1
    /\ test_batches[1].batch_size >= 1

\* C3: a run of n batches that returned normally performed exactly n - 1
\* pacing delays (none for an empty list), and after every batch that is
\* not last by position the loop is delayed.
C3_DelayBetweenBatches ==
    /\ pc \in {"returned", "exit"} => delays = Max(Len(batch_sizes) - 1, 0)
    /\ (pc = "for" /\ k >= 1 /\ k < Len(batch_sizes)) => delays = k
    /\ pc = "sleep" => k < Len(batch_sizes)

\* C4: every batch result has successful + failed = batch_size, as many
\* dicts as batch_size, and request ids 1..batch_size in order.
C4_BatchCounts ==
    \A j \in DOMAIN test_batches :
        LET b == test_batches[j] IN
        /\ b.batch_size = batch_sizes[j]
        /\ b.successful_requests + b.failed_requests = b.batch_size
        /\ b.successful_requests >= 0
        /\ b.failed_requests >= 0
        /\ Len(b.individual_requests) = b.batch_size
        /\ {b.individual_requests[i].request_id : i \in DOMAIN b.individual_requests}
               = 1..b.batch_size
        /\ b.successful_requests =
               Cardinality({i \in DOMAIN b.individual_requests :
                               ~Failed(b.individual_requests[i])})

\* C4 witness: a batch of three requests was joined, holding a success, a
\* timeout and a transport failure.
C4_Witness ==
    \E j \in DOMAIN test_batches :
        LET rs == test_batches[j].individual_requests IN
        /\ Len(rs) = 3
        /\ \E a, b, c \in DOMAIN rs :
              /\ rs[a].success
              /\ rs[b].error = TimeoutError
              /\ rs[c].error \in TransportErrors


\* Every dict of every stored batch is a failure.
AllStoredFailed ==
    \A j \in DOMAIN test_batches :
        \A i \in DOMAIN test_batches[j].individual_requests :
            Failed(test_batches[j].individual_requests[i])

\* Request i finishes with a failure in this step.
FailsNow(i) ==
    /\ phase[i] \in {"posting", "reading"}
    /\ phase'[i] = "done"
    /\ Failed(outcome'[i])

\* C5: a failed request is data.  While the batch runs no request is
\* cancelled and the run is not aborted by a request; the step in which a
\* request fails, unless it is the abort of the whole run, leaves the
\* orchestrator where it was and every other request as it was; a run that
\* returned has one batch result per batch size, each with one dict per
\* request, and when every request failed its totals are
\* total_successful = 0, total_failed = total_requests and success rate 0.
C5_StateFailuresAreData ==
    /\ pc = "gather" => /\ abort_cause = "none"
                        /\ \A i \in Ids : phase[i] # "cancelled"
    /\ \A i \in Ids : (phase[i] = "done" /\ pc # "aborted") =>
            /\ outcome[i].request_id = i
            /\ outcome[i].error = error[i]
            /\ outcome[i].status_code = status_code[i]
    /\ pc \in {"returned", "exit"} =>
            /\ abort_cause = "none"
            /\ Len(test_batches) = Len(batch_sizes)
            /\ \A j \in DOMAIN test_batches :
                   Len(test_batches[j].individual_requests) = batch_sizes[j]
            /\ overall.total_requests = SumSeq(batch_sizes)
            /\ AllStoredFailed =>
                   /\ overall.total_successful = 0
                   /\ overall.total_failed = overall.total_requests
                   /\ overall.overall_success_rate_percent = 0
                   /\ \A j \in DOMAIN test_batches :
                          test_batches[j].successful_requests = 0

C5_FailuresAreData ==
    /\ []C5_StateFailuresAreData
    /\ [][\A i \in Ids : (FailsNow(i) /\ pc' # "aborted") =>
              /\ pc' = pc
              /\ abort_cause' = abort_cause
              /\ test_batches' = test_batches
              /\ \A j \in Ids \ {i} :
                     phase'[j] = phase[j] /\ outcome'[j] = outcome[j]]_vars

\* C5 witness: a run of two batches with requests returned although every
\* request of it failed, by a timeout, a transport failure and a refused
\* status.
C5_Witness ==
    /\ pc = "returned"
    /\ Len(test_batches) = 2
    /\ test_batches[1].batch_size >= 1
    /\ test_batches[2].batch_size >= 1
    /\ AllStoredFailed
    /\ \E a, b, c \in AllOutcomes :
          /\ a.error = TimeoutError
          /\ b.error \in TransportErrors
          /\ c.status_code = 404

\* C6: a request whose timeout fired before send_request returned has the
\* timeout marker as its error and is not a success.
C6_TimeoutIsFailure ==
    \A i \in Ids : (phase[i] = "done" /\ timed_out[i]) =>
        /\ outcome[i].error = TimeoutError
        /\ ~outcome[i].success

\* C7: one attempt and one dict per request id.  A request id is posted at
\* most once, exactly once when its task runs or has returned; the posts
\* of the run are the stored dicts plus the posts of the running batch; a
\* run that returned made as many posts as it has request ids and stored
\* one dict for each.
C7_OneAttemptOneOutcome ==
    /\ \A i \in Ids :
          /\ attempts[i] <= 1
          /\ phase[i] \in {"posting", "reading", "done"} => attempts[i] = 1
          /\ phase[i] \in {"none", "created"} => attempts[i] = 0
    /\ pc = "gather" =>
          posts_total = SumField(test_batches,
                                 [b \in {test_batches[j] : j \in DOMAIN test_batches}
                                    |-> Len(b.individual_requests)])
                        + Cardinality({i \in Ids : attempts[i] = 1})
    /\ pc \in {"returned", "exit"} =>
          /\ posts_total = SumSeq(batch_sizes)
          /\ \A j \in DOMAIN batch_sizes :
                /\ j \in DOMAIN test_batches
                /\ \A id \in 1..batch_sizes[j] :
                      Cardinality({i \in DOMAIN test_batches[j].individual_requests :
                                      test_batches[j].individual_requests[i].request_id = id}) = 1

\* C7 witness: a run returned whose requests succeeded, failed and timed
\* out.
C7_Witness ==
    /\ pc = "returned"
    /\ posts_total = 3
    /\ \E a, b, c \in AllOutcomes :
          /\ a.success
          /\ b.error = TimeoutError
          /\ c.error \in TransportErrors

\* C8: in every dict send_request returned, success holds exactly when
\* error is absent and status_code is one of 200, 201, 202, 204.
C8_SuccessRule ==
    \A r \in AllOutcomes :
        r.success <=> (r.error = "None" /\ r.status_code \in {200, 201, 202, 204})

\* C8 witness: dicts with an accepted status, a refused status and an
\* error without status have been returned.
C8_Witness ==
    \E a, b, c \in AllOutcomes :
        /\ a.status_code = 204 /\ a.success
        /\ b.status_code = 404 /\ ~b.success
        /\ c.status_code = NoStatus /\ c.error # NoError /\ ~c.success

\* C9: when awaiting batch K raised, the exception reached main (the run
\* is aborted with exit status 1 and nothing was returned), the results of
\* batches 1..K-1 are what they were, and no batch is started afterwards.
C9_StateRaisePropagates ==
    abort_cause = "error" =>
        /\ pc = "aborted"
        /\ exit_status = 1
        /\ Len(test_batches) = k - 1
        /\ overall = NoStats

C9_RaisePropagates ==
    /\ []C9_StateRaisePropagates
    /\ [][(abort_cause' = "error" \/ abort_cause = "error") =>
              /\ k' = k
              /\ test_batches' = test_batches
              /\ InFlight' = {}]_vars

\* C9 witness: the second of three batches raised after the first was
\* appended.
C9_Witness ==
    /\ abort_cause = "error"
    /\ k = 2
    /\ Len(batch_sizes) = 3
    /\ Len(test_batches) = 1
    /\ test_batches[1].batch_size >= 1

\* C10: nothing is persisted for an aborted run.  A saved document exists
\* only for a run that was not aborted and holds one batch result per
\* configured batch and the overall statistics; an aborted run has exit
\* status other than 0; save_results runs only in a step taken after
\* run_all_tests returned, and never once the run is aborted.
C10_StateNoSaveAfterAbort ==
    /\ abort_cause # "none" => /\ saved = <<>>
                               /\ pc = "aborted"
                               /\ exit_status # 0
                               /\ exit_status # -1
    /\ pc = "aborted" => abort_cause # "none"
    /\ saved # <<>> => /\ abort_cause = "none"
                       /\ Len(saved) = 1
                       /\ Len(saved[1].test_batches) = Len(batch_sizes)
                       /\ saved[1].test_batches = test_batches
                       /\ saved[1].overall_statistics # NoStats
                       /\ exit_status = 0

C10_NoSaveAfterAbort ==
    /\ []C10_StateNoSaveAfterAbort
    /\ [][saved' # saved => (pc = "returned" /\ abort_cause = "none"
                             /\ k = Len(batch_sizes))]_vars

\* C10 witness: a run was interrupted while its second batch was in
\* flight, the first batch being appended, and nothing was saved.
C10_Witness ==
    /\ abort_cause = "interrupt"
    /\ pc = "aborted"
    /\ k = 2
    /\ Len(test_batches) = 1
    /\ test_batches[1].batch_size >= 1
    /\ \E i \in Ids : phase[i] = "cancelled"
    /\ saved = <<>>


\* C11: the client session lives for one batch.  Requests exist unfinished
\* only while the session is open, and the session is open only while the
\* orchestrator is suspended in the gather of a batch; a session is opened
\* in the step that starts a batch, before any of its requests is posted;
\* it stops being open only in a step after which no request is unfinished;
\* the loop never moves to another batch, and never sleeps, with the
\* session open.
C11_StateSessionPerBatch ==
    /\ InFlight # {} => session = "open"
    /\ session = "open" => pc = "gather"
    /\ pc \in {"for", "sleep", "returned", "exit", "aborted"} => session # "open"
    /\ k >= 1 => session # "none"

C11_SessionPerBatch ==
    /\ []C11_StateSessionPerBatch
    /\ [][/\ (session' = "open" /\ (session # "open" \/ k' # k)) =>
                /\ session # "open"
                /\ k' = k + 1
                /\ \A i \in Ids : phase'[i] \in {"none", "created"}
          /\ (session = "open" /\ session' # "open") => InFlight' = {}
          /\ (\E i \in Ids : phase[i] = "created" /\ phase'[i] = "posting") =>
                session = "open" /\ session' = "open"]_vars

\* C11 witness: requests of the second batch run on an open session after
\* the first batch, which had requests, was joined.
C11_Witness ==
    /\ k = 2
    /\ pc = "gather"
    /\ session = "open"
    /\ Len(test_batches) = 1
    /\ test_batches[1].batch_size >= 1
    /\ \E i \in Ids : phase[i] = "reading"


\* =================================================== the run with its clock

\* Bounds of the timed run.
MaxTimedTotal == 3    \* requests of all calls together
MaxTimedBatches == 2  \* batches of all calls together
MaxCalls == 2         \* run_all_tests calls on one tester
MaxElapsed == 2       \* ticks that pass while one batch is awaited
MaxOverrun == 1       \* ticks asyncio.sleep(2) may take beyond two seconds

\* Time is counted in ticks of a third of 0.0001 s; round(x, 4) gives a
\* number of quanta of 0.0001 s, of which a second has 10000.
TicksPerQuantum == 3
QuantaPerSecond == 10000
PacingDelay == 2

TimedIds == 1..MaxTimedTotal

\* round(x, 4) of x given in ticks, in quanta.
Round4(ticks) == RoundHalfEven(ticks, TicksPerQuantum)

\* The lists of batch_sizes arguments a tester is called with.
CallLists ==
    {c \in UNION {[1..m -> SeqsUpTo(0..MaxTimedTotal, MaxTimedBatches)] : m \in 1..MaxCalls} :
        /\ SumSeq([j \in DOMAIN c |-> SumSeq(c[j])]) <= MaxTimedTotal
        /\ SumSeq([j \in DOMAIN c |-> Len(c[j])]) <= MaxTimedBatches}

NoTimedRequest == [state |-> "none", start_time |-> 0, end_time |-> 0,
                   success |-> FALSE]

\* The timing and success fields of the dict send_request returns.
TimedOutcome(id, r) ==
    [request_id |-> id,
     start_time |-> r.start_time,
     end_time |-> r.end_time,
     duration_seconds |-> Round4(r.end_time - r.start_time),
     success |-> r.success]

\* sorted(durations)
RECURSIVE Insert(_, _)
Insert(x, sorted) ==
    IF sorted = <<>> THEN <<x>>
    ELSE IF x <= Head(sorted) THEN <<x>> \o sorted
    ELSE <<Head(sorted)>> \o Insert(x, Tail(sorted))

RECURSIVE Sorted(_)
Sorted(durations) ==
    IF durations = <<>> THEN <<>>
    ELSE Insert(Head(durations), Sorted(Tail(durations)))

\* min(durations), max(durations) of a non-empty list.
RECURSIVE MinOf(_)
MinOf(durations) ==
    IF Len(durations) = 1 THEN durations[1]
    ELSE LET m == MinOf(Tail(durations))
         IN  IF Head(durations) < m THEN Head(durations) ELSE m

RECURSIVE MaxOf(_)
MaxOf(durations) ==
    IF Len(durations) = 1 THEN durations[1]
    ELSE LET m == MaxOf(Tail(durations))
         IN  IF Head(durations) > m THEN Head(durations) ELSE m

\* Variant of Median: the two middle elements of an even count are averaged.
Median_Averaged(durations) ==
    LET n == Len(durations)
        sorted == Sorted(durations)
    IN  IF n % 2 = 1 THEN sorted[(n \div 2) + 1]
        ELSE RoundHalfEven(sorted[n \div 2] + sorted[(n \div 2) + 1], 2)

\* sorted(durations)[len(durations) // 2]
Median(durations) == Sorted(durations)[(Len(durations) \div 2) + 1]

\* The "statistics" dict (lines 116-121 and 194-199), in quanta.  The
\* durations are rounded already, so rounding min, max and median again
\* changes nothing; avg is rounded to the nearest quantum.
DurationStats(durations) ==
    IF durations # <<>>
      THEN [min_duration_seconds |-> MinOf(durations),
            max_duration_seconds |-> MaxOf(durations),
            avg_duration_seconds |-> RoundHalfEven(SumSeq(durations), Len(durations)),
            median_duration_seconds |-> Median(durations)]
      ELSE [min_duration_seconds |-> 0,
            max_duration_seconds |-> 0,
            avg_duration_seconds |-> 0,
            median_duration_seconds |-> 0]

\* round(count / seconds, 2) if seconds > 0 else 0, in hundredths of a
\* request per second, for a time given as units of which a second has
\* perSecond.
PerSecond(count, time, perSecond) ==
    IF time > 0 THEN RoundHalfEven(count * 100 * perSecond, time) ELSE 0

\* The batch_result dict of run_batch (lines 98-122).
TimedBatchResult(batch_size, start, end, results) ==
    LET batch_total_duration == end - start
        durations == [i \in DOMAIN results |-> results[i].duration_seconds]
        successful == CountSuccessful(results)
        failed == batch_size - successful
    IN  [batch_size |-> batch_size,
         batch_start_time |-> start,
         batch_end_time |-> end,
         batch_total_duration_seconds |-> Round4(batch_total_duration),
         requests_per_second |->
             PerSecond(batch_size, batch_total_duration,
                       TicksPerQuantum * QuantaPerSecond),
         successful_requests |-> successful,
         failed_requests |-> failed,
         success_rate_percent |-> PercentOf(successful, batch_size),
         individual_requests |-> results,
         statistics |-> DurationStats(durations)]

\* all_durations of _calculate_overall_stats.
RECURSIVE AllDurations(_)
AllDurations(batches) ==
    IF batches = <<>> THEN <<>>
    ELSE [i \in DOMAIN Head(batches).individual_requests |->
              Head(batches).individual_requests[i].duration_seconds]
         \o AllDurations(Tail(batches))

\* Variant of TotalTime: the wall-clock time from the start of the first
\* batch to the end of the last.
TotalTime_WallClock(batches) ==
    IF batches = <<>> THEN 0
    ELSE Round4(batches[Len(batches)].batch_end_time - batches[1].batch_start_time)

\* total_time of _calculate_overall_stats.
TotalTime(batches) ==
    SumSeq([j \in DOMAIN batches |-> batches[j].batch_total_duration_seconds])

\* _calculate_overall_stats (lines 172-200).
TimedOverallStats(batches) ==
    LET total_requests == SumSeq([j \in DOMAIN batches |-> batches[j].batch_size])
        total_successful == SumSeq([j \in DOMAIN batches |-> batches[j].successful_requests])
        total_failed == SumSeq([j \in DOMAIN batches |-> batches[j].failed_requests])
        total_time == TotalTime(batches)
    IN  [total_requests |-> total_requests,
         total_successful |-> total_successful,
         total_failed |-> total_failed,
         overall_success_rate_percent |-> PercentOf(total_successful, total_requests),
         total_test_duration_seconds |-> total_time,
         overall_requests_per_second |->
             PerSecond(total_requests, total_time, QuantaPerSecond),
         individual_request_statistics |-> DurationStats(AllDurations(batches))]


NoTimedStats == [total_requests |-> -1]

\* The tester after __init__, about to be called.
TimedInit ==
    /\ calls \in CallLists
    /\ call = 0
    /\ t_pc = "idle"
    /\ t_pos = 0
    /\ now = 0
    /\ batch_start_time = 0
    /\ t_req = [i \in TimedIds |-> NoTimedRequest]
    /\ t_batches = <<>>
    /\ t_overall = NoTimedStats
    /\ t_slept = 0
    /\ RunOff
    /\ CompareOff

\* The batch_sizes of the call in progress.
Sizes == IF call \in DOMAIN calls THEN calls[call] ELSE <<>>

TimedCurrentSize == IF t_pos \in DOMAIN Sizes THEN Sizes[t_pos] ELSE 0

\* run_all_tests is called on the tester (lines 151-158), for the first
\* time or again after an earlier call returned.
T_Call ==
    /\ t_pc \in {"idle", "returned"}
    /\ call < Len(calls)
    /\ call' = call + 1
    /\ t_pc' = "for"
    /\ t_pos' = 0
    /\ UNCHANGED <<runVars, compareVars, calls, now, batch_start_time, t_req,
                   t_batches, t_overall, t_slept>>

\* Lines 159-160 and 86-96: batch_start_time is read, the coroutines are
\* created and run_batch suspends in gather.
T_StartBatch ==
    /\ t_pc = "for"
    /\ t_pos < Len(Sizes)
    /\ t_pos' = t_pos + 1
    /\ t_pc' = "gather"
    /\ batch_start_time' = now
    /\ t_req' = [i \in TimedIds |->
                   IF i <= Sizes[t_pos + 1]
                     THEN [NoTimedRequest EXCEPT !.state = "created"]
                     ELSE NoTimedRequest]
    /\ UNCHANGED <<runVars, compareVars, calls, call, now, t_batches,
                   t_overall, t_slept>>

\* A task that gather created has not run its first step yet.
Unstarted == {i \in TimedIds : t_req[i].state = "created"}

\* Time passes while the event loop waits for the network: every task has
\* run up to its post by then.  The code between two suspensions takes no
\* tick.
T_Tick ==
    /\ t_pc = "gather"
    /\ Unstarted = {}
    /\ now - batch_start_time < MaxElapsed
    /\ now' = now + 1
    /\ UNCHANGED <<runVars, compareVars, calls, call, t_pc, t_pos,
                   batch_start_time, t_req, t_batches, t_overall, t_slept>>

\* The task of request i starts: start_time is read (line 29) and the post
\* is issued.  The loop starts the tasks in the order gather was given them.
T_SendStart(i) ==
    /\ t_pc = "gather"
    /\ t_req[i].state = "created"
    /\ \A j \in 1..(i - 1) : t_req[j].state # "created"
    /\ t_req' = [t_req EXCEPT ![i].state = "posting", ![i].start_time = now]
    /\ UNCHANGED <<runVars, compareVars, calls, call, t_pc, t_pos, now,
                   batch_start_time, t_batches, t_overall, t_slept>>

\* The request ends, by a response or by an exception: end_time is read
\* (lines 57, 60, 64) and the dict is returned, a success or not.
T_Finish(i, ok) ==
    /\ t_pc = "gather"
    /\ Unstarted = {}
    /\ t_req[i].state = "posting"
    /\ t_req' = [t_req EXCEPT ![i].state = "done", ![i].end_time = now,
                              ![i].success = ok]
    /\ UNCHANGED <<runVars, compareVars, calls, call, t_pc, t_pos, now,
                   batch_start_time, t_batches, t_overall, t_slept>>

\* Variant of TimedGatherResults: the dicts in the order the tasks ended.
TimedGatherResults_AsCompleted(n) ==
    LET order == CHOOSE f \in [1..n -> 1..n] :
                    /\ \A a, b \in 1..n : a # b => f[a] # f[b]
                    /\ \A a, b \in 1..n : a < b =>
                          \/ t_req[f[a]].end_time < t_req[f[b]].end_time
                          \/ /\ t_req[f[a]].end_time = t_req[f[b]].end_time
                             /\ f[a] < f[b]
    IN  [i \in 1..n |-> TimedOutcome(order[i], t_req[order[i]])]

\* The list gather returns: the tasks' dicts in argument order.
TimedGatherResults(n) == [i \in 1..n |-> TimedOutcome(i, t_req[i])]

\* Lines 96-149 and 161-165: gather returns, batch_end_time is read, the
\* batch result is computed and appended, and the loop sleeps or goes on.
T_JoinBatch ==
    /\ t_pc = "gather"
    /\ \A i \in 1..TimedCurrentSize : t_req[i].state = "done"
    /\ t_batches' = Append(t_batches,
                           TimedBatchResult(TimedCurrentSize, batch_start_time,
                                            now, TimedGatherResults(TimedCurrentSize)))
    /\ t_pc' = IF WaitsAfter(TimedCurrentSize, Sizes) THEN "sleep" ELSE "for"
    /\ UNCHANGED <<runVars, compareVars, calls, call, t_pos, now,
                   batch_start_time, t_req, t_overall, t_slept>>

\* asyncio.sleep(2) of line 165 returns, two seconds later or more.
T_SleepDone(overrun) ==
    /\ t_pc = "sleep"
    /\ t_pc' = "for"
    /\ now' = now + PacingDelay * QuantaPerSecond * TicksPerQuantum + overrun
    /\ t_slept' = t_slept + PacingDelay * QuantaPerSecond * TicksPerQuantum + overrun
    /\ UNCHANGED <<runVars, compareVars, calls, call, t_pos,
                   batch_start_time, t_req, t_batches, t_overall>>

\* Variant of T_ReturnResults: the totals are added to those of the
\* statistics computed before.
T_ReturnResults_Accumulates ==
    /\ t_pc = "for"
    /\ t_pos = Len(Sizes)
    /\ t_overall' = [TimedOverallStats(t_batches) EXCEPT
                        !.total_requests =
                            @ + (IF t_overall.total_requests > 0
                                   THEN t_overall.total_requests ELSE 0)]
    /\ t_pc' = "returned"
    /\ UNCHANGED <<runVars, compareVars, calls, call, t_pos, now,
                   batch_start_time, t_req, t_batches, t_slept>>

\* Lines 167-170: the overall statistics are computed from the stored
\* batches and run_all_tests returns.
T_ReturnResults ==
    /\ t_pc = "for"
    /\ t_pos = Len(Sizes)
    /\ t_overall' = TimedOverallStats(t_batches)
    /\ t_pc' = "returned"
    /\ UNCHANGED <<runVars, compareVars, calls, call, t_pos, now,
                   batch_start_time, t_req, t_batches, t_slept>>

TimedNext ==
    \/ T_Call
    \/ T_StartBatch
    \/ T_Tick
    \/ \E i \in TimedIds : T_SendStart(i)
    \/ \E i \in TimedIds, ok \in BOOLEAN : T_Finish(i, ok)
    \/ T_JoinBatch
    \/ \E overrun \in 0..MaxOverrun : T_SleepDone(overrun)
    \/ T_ReturnResults

TimedSpec == TimedInit /\ [][TimedNext]_vars


\* ------------------------------------------------ claims of the timed run

StoredBatches == {t_batches[j] : j \in DOMAIN t_batches}

\* The dicts of all stored batches, flattened in order.
RECURSIVE Flatten(_)
Flatten(batches) ==
    IF batches = <<>> THEN <<>>
    ELSE Head(batches).individual_requests \o Flatten(Tail(batches))

\* The number of elements of a list that are below, or not above, x.
Below(list, x) == Cardinality({i \in DOMAIN list : list[i] < x})
NotAbove(list, x) == Cardinality({i \in DOMAIN list : list[i] <= x})

\* C12: the overall statistics are a function of the stored batches.  After
\* every return of run_all_tests the stored statistics are what the stored
\* batch list gives when evaluated again; the totals are those of the
\* flattened dicts (their number, the successes, the failures, the two
\* adding up to the number), and the overall minimum and maximum are the
\* least batch minimum and the greatest batch maximum of the batches that
\* have requests; a call that appends nothing leaves the statistics of the
\* call before it exactly as they were.
C12_StateOverallFromBatches ==
    t_pc = "returned" =>
        LET flat == Flatten(t_batches)
            full == {b \in StoredBatches : b.individual_requests # <<>>}
        IN  /\ t_overall = TimedOverallStats(t_batches)
            /\ t_overall.total_requests = Len(flat)
            /\ t_overall.total_successful =
                   Cardinality({i \in DOMAIN flat : flat[i].success})
            /\ t_overall.total_failed =
                   Cardinality({i \in DOMAIN flat : ~flat[i].success})
            /\ t_overall.total_successful + t_overall.total_failed
                   = t_overall.total_requests
            /\ full # {} =>
                 /\ \E b \in full :
                        t_overall.individual_request_statistics.min_duration_seconds
                            = b.statistics.min_duration_seconds
                 /\ \A b \in full :
                        t_overall.individual_request_statistics.min_duration_seconds
                            <= b.statistics.min_duration_seconds
                 /\ \E b \in full :
                        t_overall.individual_request_statistics.max_duration_seconds
                            = b.statistics.max_duration_seconds
                 /\ \A b \in full :
                        t_overall.individual_request_statistics.max_duration_seconds
                            >= b.statistics.max_duration_seconds

C12_OverallFromBatches ==
    /\ []C12_StateOverallFromBatches
    /\ [][(t_pc = "for" /\ t_pc' = "returned" /\ call >= 2 /\ Sizes = <<>>) =>
              t_overall' = t_overall]_vars

\* C12 witness: a second call with no batch sizes returned, on a tester
\* that stores two batches with requests, a success and a failure among
\* them.
C12_Witness ==
    /\ t_pc = "returned"
    /\ call = 2
    /\ Sizes = <<>>
    /\ Len(t_batches) = 2
    /\ t_batches[1].batch_size >= 1
    /\ t_batches[2].batch_size >= 1
    /\ t_overall.total_successful >= 1
    /\ t_overall.total_failed >= 1

\* C13: the total duration of a run is the sum of the rounded durations of
\* its batches, each taken from the batch's own start to its own end; the
\* time the batches took is the time from the first start to now less the
\* time slept, so no delay is counted; the overall throughput is the total
\* requests divided by that sum, rounded to hundredths, and 0 when the sum
\* is not positive.
C13_TotalExcludesDelays ==
    (t_pc = "returned" /\ t_batches # <<>>) =>
        LET raw == [j \in DOMAIN t_batches |->
                       t_batches[j].batch_end_time - t_batches[j].batch_start_time]
            sum == SumSeq([j \in DOMAIN raw |-> RoundHalfEven(raw[j], TicksPerQuantum)])
        IN  /\ t_overall.total_test_duration_seconds = sum
            /\ SumSeq(raw) = (now - t_batches[1].batch_start_time) - t_slept
            /\ t_overall.overall_requests_per_second =
                   (IF sum > 0
                      THEN RoundHalfEven(t_overall.total_requests * 100 * 10000, sum)
                      ELSE 0)

\* C13 witness: a run of two batches returned after a delay that took
\* longer than two seconds, with a positive total duration.
C13_Witness ==
    /\ t_pc = "returned"
    /\ Len(t_batches) = 2
    /\ t_slept > PacingDelay * QuantaPerSecond * TicksPerQuantum
    /\ t_overall.total_test_duration_seconds > 0
    /\ t_overall.total_requests >= 2

\* The statistics st are those of the non-empty list durations: the median
\* is the element with floor(n/2) elements before it in ascending order,
\* min and max are the least and the greatest element.
IsUpperMedianStats(st, durations) ==
    LET n == Len(durations)
        m == st.median_duration_seconds
    IN  /\ \E i \in DOMAIN durations : durations[i] = m
        /\ Below(durations, m) <= n \div 2
        /\ NotAbove(durations, m) >= (n \div 2) + 1
        /\ \E i \in DOMAIN durations : durations[i] = st.min_duration_seconds
        /\ \A i \in DOMAIN durations : durations[i] >= st.min_duration_seconds
        /\ \E i \in DOMAIN durations : durations[i] = st.max_duration_seconds
        /\ \A i \in DOMAIN durations : durations[i] <= st.max_duration_seconds

DurationsOf(results) == [i \in DOMAIN results |-> results[i].duration_seconds]

\* C14: the median reported for every batch with requests, and for the run,
\* is the element at index floor(n/2) of the ascending durations (the upper
\* of the two middle ones when n is even), and min and max are the least
\* and greatest duration.
C14_UpperMedian ==
    /\ \A b \in StoredBatches :
          b.individual_requests # <<>> =>
              IsUpperMedianStats(b.statistics, DurationsOf(b.individual_requests))
    /\ (t_pc = "returned" /\ Flatten(t_batches) # <<>>) =>
          IsUpperMedianStats(t_overall.individual_request_statistics,
                             DurationsOf(Flatten(t_batches)))

\* C14 witness: a batch of two requests with different durations reports
\* the greater one as its median, and a run of three requests returned.
C14_Witness ==
    /\ t_pc = "returned"
    /\ Len(Flatten(t_batches)) = 3
    /\ \E b \in StoredBatches :
          /\ b.batch_size = 2
          /\ b.statistics.min_duration_seconds < b.statistics.max_duration_seconds
          /\ b.statistics.median_duration_seconds = b.statistics.max_duration_seconds

\* C15: a batch of size 0 gives a result with no dicts, 0 successes and
\* failures, requests_per_second 0, success rate 0 and all duration
\* statistics 0; a run of size-0 batches only has overall success rate 0.
C15_EmptyBatch ==
    /\ \A b \in StoredBatches :
          b.batch_size = 0 =>
              /\ b.individual_requests = <<>>
              /\ b.requests_per_second = 0
              /\ b.success_rate_percent = 0
              /\ b.successful_requests = 0
              /\ b.failed_requests = 0
              /\ b.statistics.min_duration_seconds = 0
              /\ b.statistics.max_duration_seconds = 0
              /\ b.statistics.avg_duration_seconds = 0
              /\ b.statistics.median_duration_seconds = 0
    /\ (t_pc = "returned" /\ \A b \in StoredBatches : b.batch_size = 0) =>
          /\ t_overall.overall_success_rate_percent = 0
          /\ t_overall.total_requests = 0
          /\ t_overall.overall_requests_per_second = 0

\* C15 witness: a run of two batches of size 0 returned, one of which took
\* no time and one of which took some.
C15_Witness ==
    /\ t_pc = "returned"
    /\ Len(t_batches) = 2
    /\ \A b \in StoredBatches : b.batch_size = 0
    /\ \E b \in StoredBatches : b.batch_end_time = b.batch_start_time
    /\ \E b \in StoredBatches : b.batch_total_duration_seconds > 0

\* C19: the i-th dict of every stored batch has request_id i, in whatever
\* order the requests ended.
C19_LaunchOrder ==
    \A b \in StoredBatches :
        \A i \in DOMAIN b.individual_requests :
            b.individual_requests[i].request_id = i

\* C19 witness: a stored batch whose second request ended before its first.
C19_Witness ==
    \E b \in StoredBatches :
        /\ b.batch_size >= 2
        /\ b.individual_requests[2].end_time < b.individual_requests[1].end_time

\* C20: after a call run_all_tests(sizes) returned, the first or a later
\* one, the tester stores one batch result per element of sizes, in order
\* and of that size, and the overall statistics cover those batches.
C20_OneResultPerSize ==
    t_pc = "returned" =>
        /\ Len(t_batches) = Len(Sizes)
        /\ \A j \in DOMAIN Sizes :
              j \in DOMAIN t_batches /\ t_batches[j].batch_size = Sizes[j]
        /\ t_overall.total_requests = SumSeq(Sizes)


\* ======================================================== compare_results

\* Bound of the comparator: batches of the two documents together.
MaxCompareBatches == 4

\* Values of the metrics in the documents, in the unit of their last digit,
\* and batch sizes.
MetricValues == {0, 1}
DocBatchSizes == {1, 2}

\* d.get(key, default)
Get(d, key, default) == IF key \in DOMAIN d THEN d[key] ELSE default

\* A dict without keys.
EmptyDict == <<>>

\* The "overall_statistics" dicts of the documents.
OverallDicts ==
    {[overall_success_rate_percent |-> a,
      overall_requests_per_second |-> b,
      individual_request_statistics |-> [avg_duration_seconds |-> c]] :
        a \in MetricValues, b \in MetricValues, c \in MetricValues}

\* The batch dicts of the documents.
BatchDicts ==
    {[batch_size |-> n,
      batch_total_duration_seconds |-> t,
      statistics |-> [avg_duration_seconds |-> t]] :
        n \in DocBatchSizes, t \in MetricValues}

\* The documents with the given number of batches: with every field, from
\* a version of the tool that wrote no overall statistics, and (for no
\* batches) without any field.
Documents(n) ==
    {[overall_statistics |-> o, test_batches |-> l] :
        o \in OverallDicts, l \in [1..n -> BatchDicts]}
    \cup {[test_batches |-> l] : l \in [1..n -> BatchDicts]}
    \cup (IF n = 0 THEN {EmptyDict} ELSE {})

CompareInit ==
    /\ \E n1 \in 0..MaxCompareBatches :
         \E n2 \in 0..(MaxCompareBatches - n1) :
            /\ result1 \in Documents(n1)
            /\ result2 \in Documents(n2)
    /\ c_pc = "overall"
    /\ c_pos = 0
    /\ report = <<>>
    /\ RunOff
    /\ TimedOff

stats1 == Get(result1, "overall_statistics", EmptyDict)
stats2 == Get(result2, "overall_statistics", EmptyDict)
batches1 == Get(result1, "test_batches", <<>>)
batches2 == Get(result2, "test_batches", <<>>)

\* Variant of Diff: file 1 minus file 2.
Diff_Reversed(v1, v2) == v1 - v2

\* "diff = ...2 - ...1"
Diff(v1, v2) == v2 - v1

\* Variant of LowerIsBetter: the test of the other metrics is used.
LowerIsBetter_Copied(diff) == IF diff >= 0 THEN "favorable" ELSE "unfavorable"

\* The mark printed after a difference: the check mark or the cross.
HigherIsBetter(diff) == IF diff >= 0 THEN "favorable" ELSE "unfavorable"
LowerIsBetter(diff) == IF diff <= 0 THEN "favorable" ELSE "unfavorable"

\* A printed "Difference:" line.
DiffLine(section, pos, metric, diff, mark) ==
    [kind |-> "difference", section |-> section, pos |-> pos,
     metric |-> metric, diff |-> diff, mark |-> mark]

\* Printed lines that show values of the two files without a difference.
ValueLine(section, pos, metric, v1, v2) ==
    [kind |-> "values", section |-> section, pos |-> pos,
     metric |-> metric, file1 |-> v1, file2 |-> v2]

\* Lines 42-95: the overall comparison.
C_Overall ==
    /\ c_pc = "overall"
    /\ LET success1 == Get(stats1, "overall_success_rate_percent", 0)
           success2 == Get(stats2, "overall_success_rate_percent", 0)
           rps1 == Get(stats1, "overall_requests_per_second", 0)
           rps2 == Get(stats2, "overall_requests_per_second", 0)
           avg1 == Get(Get(stats1, "individual_request_statistics", EmptyDict),
                       "avg_duration_seconds", 0)
           avg2 == Get(Get(stats2, "individual_request_statistics", EmptyDict),
                       "avg_duration_seconds", 0)
       IN  report' = report \o
             <<DiffLine("overall", 0, "success_rate_percent",
                        Diff(success1, success2),
                        HigherIsBetter(Diff(success1, success2))),
               DiffLine("overall", 0, "requests_per_second",
                        Diff(rps1, rps2), HigherIsBetter(Diff(rps1, rps2))),
               DiffLine("overall", 0, "avg_duration_seconds",
                        Diff(avg1, avg2), LowerIsBetter(Diff(avg1, avg2)))>>
    /\ c_pc' = "batches"
    /\ UNCHANGED <<runVars, timedVars, result1, result2, c_pos>>

\* The pairs zip(batches1, batches2) gives.
Min(a, b) == IF a <= b THEN a ELSE b
Pairs == Min(Len(batches1), Len(batches2))

\* Variant of C_SkipPair: the loop ends at the first pair of different
\* sizes.
C_SkipPair_Breaks ==
    /\ c_pc = "batches"
    /\ c_pos < Pairs
    /\ Get(batches1[c_pos + 1], "batch_size", 0)
          # Get(batches2[c_pos + 1], "batch_size", 0)
    /\ c_pc' = "done"
    /\ UNCHANGED <<runVars, timedVars, result1, result2, c_pos, report>>

\* Lines 103-108: the next pair has different sizes and is passed over.
C_SkipPair ==
    /\ c_pc = "batches"
    /\ c_pos < Pairs
    /\ Get(batches1[c_pos + 1], "batch_size", 0)
          # Get(batches2[c_pos + 1], "batch_size", 0)
    /\ c_pos' = c_pos + 1
    /\ UNCHANGED <<runVars, timedVars, result1, result2, c_pc, report>>

\* Lines 103-120: the next pair has equal sizes and is printed.
C_ReportPair ==
    /\ c_pc = "batches"
    /\ c_pos < Pairs
    /\ LET batch1 == batches1[c_pos + 1]
           batch2 == batches2[c_pos + 1]
           size1 == Get(batch1, "batch_size", 0)
           size2 == Get(batch2, "batch_size", 0)
           time1 == Get(batch1, "batch_total_duration_seconds", 0)
           time2 == Get(batch2, "batch_total_duration_seconds", 0)
       IN  /\ size1 = size2
           /\ report' = report \o
                <<[kind |-> "batch", section |-> "batch", pos |-> c_pos + 1,
                   batch_size |-> size1],
                  DiffLine("batch", c_pos + 1, "batch_total_duration_seconds",
                           Diff(time1, time2), LowerIsBetter(Diff(time1, time2))),
                  ValueLine("batch", c_pos + 1, "avg_duration_seconds",
                            Get(Get(batch1, "statistics", EmptyDict),
                                "avg_duration_seconds", 0),
                            Get(Get(batch2, "statistics", EmptyDict),
                                "avg_duration_seconds", 0))>>
    /\ c_pos' = c_pos + 1
    /\ UNCHANGED <<runVars, timedVars, result1, result2, c_pc>>

\* Line 122: zip is exhausted and compare_results returns.
C_Done ==
    /\ c_pc = "batches"
    /\ c_pos = Pairs
    /\ c_pc' = "done"
    /\ UNCHANGED <<runVars, timedVars, result1, result2, c_pos, report>>

CompareNext ==
    \/ C_Overall
    \/ C_SkipPair
    \/ C_ReportPair
    \/ C_Done

CompareSpec == CompareInit /\ [][CompareNext]_vars


\* ------------------------------------------------ claims of the comparator

\* The batch lists of the two documents and the size a batch dict gives
\* (0 when it has none).
DocBatches(doc) == IF "test_batches" \in DOMAIN doc THEN doc.test_batches ELSE <<>>
SizeOf(batch) == IF "batch_size" \in DOMAIN batch THEN batch.batch_size ELSE 0
DurationOf(batch) ==
    IF "batch_total_duration_seconds" \in DOMAIN batch
      THEN batch.batch_total_duration_seconds ELSE 0

Shorter ==
    IF Len(DocBatches(result1)) <= Len(DocBatches(result2))
      THEN Len(DocBatches(result1)) ELSE Len(DocBatches(result2))

\* Positions whose two batches have the same size.
EqualSized ==
    {p \in 1..Shorter :
        SizeOf(DocBatches(result1)[p]) = SizeOf(DocBatches(result2)[p])}

Lines(kind) == {i \in DOMAIN report : report[i].kind = kind}

\* C16: the batches are paired by position, up to the shorter list.  The
\* positions reported so far are exactly the positions taken so far whose
\* two sizes are equal, each once, in increasing order and with that size;
\* nothing at all is reported for a position of different sizes; when the
\* comparison is done every position up to the shorter list was taken.
C16_PairsByPosition ==
    /\ c_pos <= Shorter
    /\ c_pc = "done" => c_pos = Shorter
    /\ {report[i].pos : i \in Lines("batch")} = {p \in EqualSized : p <= c_pos}
    /\ \A i, j \in Lines("batch") : i < j => report[i].pos < report[j].pos
    /\ \A i \in Lines("batch") :
          /\ report[i].batch_size = SizeOf(DocBatches(result1)[report[i].pos])
          /\ report[i].batch_size = SizeOf(DocBatches(result2)[report[i].pos])
    /\ \A i \in DOMAIN report :
          report[i].section = "batch" => report[i].pos \in EqualSized

\* C16 witness: the comparison is done, the first pair had different sizes
\* and the second pair, of equal sizes, is reported.
C16_Witness ==
    /\ c_pc = "done"
    /\ Shorter = 2
    /\ EqualSized = {2}
    /\ \E i \in Lines("batch") : report[i].pos = 2 /\ report[i].batch_size = 2

\* The difference lines reported for a section and position, as pairs of
\* metric and difference.
Differences(section, pos) ==
    {<<report[i].metric, report[i].diff>> :
        i \in {j \in Lines("difference") :
                 report[j].section = section /\ report[j].pos = pos}}

OverallOf(doc) ==
    IF "overall_statistics" \in DOMAIN doc THEN doc.overall_statistics
    ELSE [overall_success_rate_percent |-> 0,
          overall_requests_per_second |-> 0,
          individual_request_statistics |-> [avg_duration_seconds |-> 0]]

\* The four metrics of the claim.
FourMetrics == {"success_rate_percent", "requests_per_second",
                "avg_duration_seconds", "batch_total_duration_seconds"}

\* C17 as stated: once the comparison is done, a difference of each of the
\* four metrics is reported for the overall statistics and for every
\* position of equal sizes.
C17_FourDifferences ==
    c_pc = "done" =>
        /\ {d[1] : d \in Differences("overall", 0)} = FourMetrics
        /\ \A p \in EqualSized :
              {d[1] : d \in Differences("batch", p)} = FourMetrics

\* C17 as amended: the differences reported for the overall statistics are
\* those of success rate, throughput and mean duration, file 2 minus file
\* 1; the only difference reported for a position of equal sizes is that
\* of the batch total duration, file 2 minus file 1, the two mean durations
\* being printed without a difference.
C17_ReportedDifferences ==
    /\ c_pc # "overall" =>
          Differences("overall", 0) =
              {<<"success_rate_percent",
                 OverallOf(result2).overall_success_rate_percent
                   - OverallOf(result1).overall_success_rate_percent>>,
               <<"requests_per_second",
                 OverallOf(result2).overall_requests_per_second
                   - OverallOf(result1).overall_requests_per_second>>,
               <<"avg_duration_seconds",
                 OverallOf(result2).individual_request_statistics.avg_duration_seconds
                   - OverallOf(result1).individual_request_statistics.avg_duration_seconds>>}
    /\ \A p \in {q \in EqualSized : q <= c_pos} :
          /\ Differences("batch", p) =
                {<<"batch_total_duration_seconds",
                   DurationOf(DocBatches(result2)[p])
                     - DurationOf(DocBatches(result1)[p])>>}
          /\ \E i \in Lines("values") :
                report[i].pos = p /\ report[i].metric = "avg_duration_seconds"

\* C17 witness: the comparison is done with a pair of equal sizes reported
\* whose total durations differ, and with overall statistics that differ in
\* both directions.
C17_Witness ==
    /\ c_pc = "done"
    /\ \E p \in EqualSized :
          <<"batch_total_duration_seconds", -1>> \in Differences("batch", p)
    /\ <<"success_rate_percent", 1>> \in Differences("overall", 0)
    /\ <<"avg_duration_seconds", -1>> \in Differences("overall", 0)

\* C18: every reported difference other than 0 carries the mark of its
\* sign: for success rate and throughput a positive one is favorable and a
\* negative one unfavorable, for mean duration and batch total duration a
\* negative one is favorable and a positive one unfavorable.
C18_SignConvention ==
    \A i \in Lines("difference") :
        LET l == report[i] IN
        l.diff # 0 =>
            IF l.metric \in {"success_rate_percent", "requests_per_second"}
              THEN l.mark = (IF l.diff > 0 THEN "favorable" ELSE "unfavorable")
              ELSE l.mark = (IF l.diff < 0 THEN "favorable" ELSE "unfavorable")

\* C18 witness: a run of the comparator reported a higher success rate and
\* a lower mean duration as favorable, and a longer batch as unfavorable.
C18_Witness ==
    /\ \E i \in Lines("difference") :
          /\ report[i].metric = "success_rate_percent"
          /\ report[i].diff > 0 /\ report[i].mark = "favorable"
    /\ \E i \in Lines("difference") :
          /\ report[i].metric = "avg_duration_seconds"
          /\ report[i].diff < 0 /\ report[i].mark = "favorable"
    /\ \E i \in Lines("difference") :
          /\ report[i].metric = "batch_total_duration_seconds"
          /\ report[i].diff > 0 /\ report[i].mark = "unfavorable"

====
